---- MODULE Spec2Model ----
(***************************************************************************)
(* GitLabDashboard: the pipelines component (refresh cycles, batching,     *)
(* retry-in-place), the pin service, the credential service and the        *)
(* export/import screen, as state machines.                                *)
(*                                                                         *)
(*   Spec            the pipelines component, refresh cycles overlapping   *)
(*   SpecSequential  the component, one refresh cycle after the other      *)
(*   SpecSettles     SpecSequential, every issued network call settles     *)
(*   SpecRetry       sequential cycles with the user retrying pipelines    *)
(*   SpecPins        sequential cycles with the user pinning projects      *)
(*   SpecStatus      canRetryPipeline over every status                    *)
(*   SpecSettings    the export/import screen with pin and auth services   *)
(*   SpecPinService  the pin service under pin toggles and drag-reorder    *)
(*   SpecPinnedOrder the pin service with imports of pinned orders         *)
(***************************************************************************)
EXTENDS Integers, Sequences, FiniteSets, TLC

(***************************************************************************)
(* Bounds of the model.                                                    *)
(***************************************************************************)
\* number of projects the server can list
MaxProjects == 3
\* the component's BATCH_SIZE is 10 (pipelines.component.ts:111); the model
\* scales it down so that a short project list already spans two batches
BATCH_SIZE == 2
\* refresh cycles that can be in flight at the same time (slots are reused)
MaxInFlight == 2
\* retry calls that can be in flight at the same time
MaxRetries == 2
\* pipeline values the server can hand out per project
NumPipelines == 2
\* ids that can be pinned on the settings screen and its longest array
MaxPinned == 4
\* longest pinnedRepos array in an import document
MaxImportLen == 2

Ids == 1..MaxProjects
Slots == 1..MaxInFlight
Pipelines == 1..NumPipelines
\* pipeline: null
NULL == 0

(***************************************************************************)
(* Sequence helpers (Array.prototype.filter / includes / splice / map).    *)
(***************************************************************************)
Range(s) == {s[i] : i \in 1..Len(s)}

includes(s, x) == \E i \in 1..Len(s) : s[i] = x

\* Array.prototype.indexOf, 0-based, -1 when absent
indexOf(s, x) ==
  IF includes(s, x) THEN (CHOOSE i \in 1..Len(s) : s[i] = x /\ \A j \in 1..(i-1) : s[j] # x) - 1
  ELSE -1

\* arr.splice(index, 1) with a 0-based index: the array that remains
spliceRemove(s, index) ==
  IF index < 0 \/ index >= Len(s) THEN s
  ELSE SubSeq(s, 1, index) \o SubSeq(s, index + 2, Len(s))

\* arr.splice(index, 0, x) with a 0-based index (start is clamped to length)
spliceInsert(s, index, x) ==
  LET at == IF index > Len(s) THEN Len(s) ELSE IF index < 0 THEN 0 ELSE index
  IN SubSeq(s, 1, at) \o <<x>> \o SubSeq(s, at + 1, Len(s))

\* the ids of a list of projects or project views
IdsOf(s) == [i \in 1..Len(s) |-> s[i].id]

\* no value occurs twice
IsUnique(s) == \A i, j \in 1..Len(s) : i # j => s[i] # s[j]

VARIABLES
  \* PipelinesComponent
  projects, loading, refreshing, loadingPinned, loadingOthers, error,
  retryingPipelines, life, timer, cyc, retries,
  \* GitLab server
  server,
  \* PinService
  pinnedIds, pinStorage,
  \* AuthService
  credentials, credStorage,
  \* ExportImportComponent
  importData, importError, importSuccess, importTimer,
  \* the operation that ran last, with what it was given
  lastOp

compVars == <<projects, loading, refreshing, loadingPinned, loadingOthers, error,
              retryingPipelines, life, timer, cyc, retries, server>>
pinVars == <<pinnedIds, pinStorage>>
authVars == <<credentials, credStorage>>
importVars == <<importData, importError, importSuccess, importTimer>>
vars == <<compVars, pinVars, authVars, importVars, lastOp>>

(***************************************************************************)
(* AuthService (auth.service.ts).  null is the empty sequence, a value v   *)
(* is <<v>>.                                                               *)
(***************************************************************************)
saveCredentials(username, token) ==
  /\ credStorage' = <<[username |-> username, token |-> token]>>
  /\ credentials' = <<[username |-> username, token |-> token]>>

clearCredentials ==
  /\ credStorage' = <<>>
  /\ credentials' = <<>>

hasCredentials == credentials # <<>>

(***************************************************************************)
(* PinService (the array version with reorderPinned / setPinnedOrder).     *)
(***************************************************************************)
isPinned(projectId) == includes(pinnedIds, projectId)

\* savePinnedIds stores the JSON text of the new array
savePinnedIds(ids) == pinStorage' = <<ids>>

togglePinResult(current, projectId) ==
  LET index == indexOf(current, projectId)
  IN IF index > -1 THEN spliceRemove(current, index) ELSE Append(current, projectId)

PinService_togglePin(projectId) ==
  /\ pinnedIds' = togglePinResult(pinnedIds, projectId)
  /\ savePinnedIds(togglePinResult(pinnedIds, projectId))

\* reorderPinned without the adjustment of toIndex after the removal
reorderPinnedResult_unadjusted(current, fromIndex, toIndex) ==
  spliceInsert(spliceRemove(current, fromIndex), toIndex, current[fromIndex + 1])

reorderPinnedResult(current, fromIndex, toIndex) ==
  LET moved == current[fromIndex + 1]
      rest == spliceRemove(current, fromIndex)
      adjustedToIndex == IF fromIndex < toIndex THEN toIndex - 1 ELSE toIndex
  IN spliceInsert(rest, adjustedToIndex, moved)

reorderPinned(fromIndex, toIndex) ==
  /\ fromIndex \in 0..(Len(pinnedIds) - 1)
  /\ toIndex \in 0..(Len(pinnedIds) - 1)
  /\ pinnedIds' = reorderPinnedResult(pinnedIds, fromIndex, toIndex)
  /\ savePinnedIds(reorderPinnedResult(pinnedIds, fromIndex, toIndex))

getPinnedOrder == pinnedIds

setPinnedOrder(ids) ==
  /\ pinnedIds' = ids
  /\ savePinnedIds(ids)

clearPinned ==
  /\ pinnedIds' = <<>>
  /\ pinStorage' = <<>>

\* loadPinnedIds: what the constructor makes of the stored record
loadPinnedIds(stored) == IF stored # <<>> THEN stored[1] ELSE <<>>

(***************************************************************************)
(* ExportImportComponent.importUserData.                                   *)
(*                                                                         *)
(* An import text is blank, not JSON, or a JSON document.  A document has  *)
(*   version      <<>> when absent, else <<string>>                        *)
(*   credentials  <<>> when absent, else <<[username, token]>>             *)
(*   pinnedRepos  kind "absent", "other" (present, not an array) or        *)
(*                "array" with items; an item is a number or a string      *)
(***************************************************************************)
NumberItem(n) == [t |-> "number", v |-> n]
StringItem(n) == [t |-> "string", v |-> n]
ImportItems == {NumberItem(n) : n \in 1..MaxImportLen} \cup {StringItem(2)}

RECURSIVE SeqsUpTo(_, _)
SeqsUpTo(S, n) ==
  IF n = 0 THEN {<<>>}
  ELSE SeqsUpTo(S, n - 1) \cup {Append(t, x) : t \in {u \in SeqsUpTo(S, n - 1) : Len(u) = n - 1}, x \in S}

ImportVersions == {<<>>, <<"">>, <<"1.0">>}
ImportCredentials ==
  {<<>>} \cup {<<[username |-> u, token |-> t]>> : u \in {"", "user"}, t \in {"", "glpat"}}
ImportPinnedRepos ==
  {[kind |-> "absent", items |-> <<>>], [kind |-> "other", items |-> <<>>]}
    \cup {[kind |-> "array", items |-> a] : a \in SeqsUpTo(ImportItems, MaxImportLen)}

BlankText == [kind |-> "blank", version |-> <<>>, credentials |-> <<>>,
              pinnedRepos |-> [kind |-> "absent", items |-> <<>>]]
GarbageText == [kind |-> "garbage", version |-> <<>>, credentials |-> <<>>,
                pinnedRepos |-> [kind |-> "absent", items |-> <<>>]]
ImportTexts ==
  {BlankText, GarbageText}
    \cup [kind : {"json"}, version : ImportVersions, credentials : ImportCredentials,
          pinnedRepos : ImportPinnedRepos]

\* !data.version: absent or the empty string
versionMissing(data) == data.version = <<>> \/ data.version = <<"">>

\* !data.credentials.username || !data.credentials.token
credentialsInvalid(data) ==
  data.credentials[1].username = "" \/ data.credentials[1].token = ""

\* data.pinnedRepos && Array.isArray(data.pinnedRepos)
pinnedReposIsArray(data) == data.pinnedRepos.kind = "array"

\* data.pinnedRepos.some(id => typeof id === 'number')
everyIsNumber_some(items) == \E i \in 1..Len(items) : items[i].t = "number"

\* data.pinnedRepos.every(id => typeof id === 'number')
everyIsNumber(items) == \A i \in 1..Len(items) : items[i].t = "number"

\* the number array handed to setPinnedOrder
numbersOf(items) == [i \in 1..Len(items) |-> items[i].v]

\* where importUserData stops: the step at which it returns
importOutcome(text) ==
  IF text.kind = "blank" THEN "blank"
  ELSE IF text.kind = "garbage" THEN "badJson"
  ELSE IF versionMissing(text) THEN "noVersion"
  ELSE IF text.credentials # <<>> /\ credentialsInvalid(text) THEN "badCredentials"
  ELSE IF pinnedReposIsArray(text) /\ ~everyIsNumber(text.pinnedRepos.items) THEN "badPinned"
  ELSE IF text.credentials # <<>> \/ pinnedReposIsArray(text) THEN "imported"
  ELSE "nothing"

importMessage(outcome) ==
  CASE outcome = "blank" -> "Please paste or upload import data"
    [] outcome = "badJson" -> "Invalid JSON format. Please check your import data."
    [] outcome = "noVersion" -> "Invalid export file: missing version"
    [] outcome = "badCredentials" -> "Invalid credentials data"
    [] outcome = "badPinned" -> "Invalid pinned repos data: must be array of numbers"
    [] outcome = "nothing" -> "No valid data found in import file"
    [] OTHER -> ""

\* the credentials block ran saveCredentials before the function returned
importSavesCredentials(text) ==
  /\ importOutcome(text) \in {"badPinned", "imported"}
  /\ text.credentials # <<>>

\* the pinned block ran setPinnedOrder
importSetsPinned(text) ==
  /\ importOutcome(text) = "imported"
  /\ pinnedReposIsArray(text)

importUserData(text) ==
  /\ importError' = importMessage(importOutcome(text))
  /\ importSuccess' = (importOutcome(text) = "imported")
  /\ importData' = IF importOutcome(text) = "imported" THEN BlankText ELSE text
  /\ IF importSavesCredentials(text)
       THEN saveCredentials(text.credentials[1].username, text.credentials[1].token)
       ELSE UNCHANGED authVars
  /\ IF importSetsPinned(text)
       THEN setPinnedOrder(numbersOf(text.pinnedRepos.items))
       ELSE UNCHANGED pinVars
  /\ importTimer' = IF importOutcome(text) # "imported" THEN importTimer
                    ELSE IF text.credentials # <<>> THEN importTimer \cup {"navigate"}
                    ELSE importTimer \cup {"clear"}
  /\ lastOp' = [op |-> "importUserData", text |-> text,
                credentialsBefore |-> credentials, pinnedBefore |-> pinnedIds]
  /\ UNCHANGED compVars

\* setTimeout(() => this.importSuccess = false, 3000)
importSuccessTimeout ==
  /\ "clear" \in importTimer
  /\ importSuccess' = FALSE
  /\ importTimer' = importTimer \ {"clear"}
  /\ lastOp' = [op |-> "importSuccessTimeout"]
  /\ UNCHANGED <<compVars, pinVars, authVars, importData, importError>>

\* setTimeout(() => this.router.navigate(['/pipelines']), 1500)
importNavigateTimeout ==
  /\ "navigate" \in importTimer
  /\ importTimer' = importTimer \ {"navigate"}
  /\ lastOp' = [op |-> "importNavigateTimeout"]
  /\ UNCHANGED <<compVars, pinVars, authVars, importData, importError, importSuccess>>

clearImport ==
  /\ importData' = BlankText
  /\ importError' = ""
  /\ importSuccess' = FALSE
  /\ lastOp' = [op |-> "clearImport"]
  /\ UNCHANGED <<compVars, pinVars, authVars, importTimer>>

\* the pin service as the project cards drive it (pin button, drag and drop)
pinServiceTogglePin(projectId) ==
  /\ PinService_togglePin(projectId)
  /\ lastOp' = [op |-> "togglePin", id |-> projectId, pinnedBefore |-> pinnedIds]
  /\ UNCHANGED <<compVars, authVars, importVars>>

pinServiceReorderPinned(fromIndex, toIndex) ==
  /\ reorderPinned(fromIndex, toIndex)
  /\ lastOp' = [op |-> "reorderPinned", from |-> fromIndex, to |-> toIndex,
                pinnedBefore |-> pinnedIds]
  /\ UNCHANGED <<compVars, authVars, importVars>>


(***************************************************************************)
(* GitLabService and the server behind it.                                 *)
(*                                                                         *)
(* server[id] is the latest pipeline the server holds for a project, NULL  *)
(* when the project has no pipeline.  A project is [id |-> i]; a project   *)
(* view is [id |-> i, pipeline |-> p].                                     *)
(***************************************************************************)
\* a pipeline request that has not settled
PENDING == -1
\* an HTTP call that failed
HTTP_ERROR == <<-1>>

\* GET /projects answers with the first n projects in the server's order
ServerOrder == [i \in 1..MaxProjects |-> [id |-> MaxProjects + 1 - i]]
ProjectLists == {SubSeq(ServerOrder, 1, n) : n \in 0..MaxProjects}

\* GET /projects/{id}/pipelines?per_page=1: a list of at most one pipeline
latestPipelineResponse(projectId) ==
  IF server[projectId] = NULL THEN <<>> ELSE <<server[projectId]>>

PipelineResponses(projectId) == {HTTP_ERROR, latestPipelineResponse(projectId)}

\* getHeaders throws when there are no credentials
getHeadersThrows == credentials = <<>>

\* getLatestPipeline: map(pipelines => pipelines.length > 0 ? pipelines[0] : null),
\* catchError(() => of(null))
getLatestPipeline(response) ==
  IF response = HTTP_ERROR THEN NULL
  ELSE IF Len(response) > 0 THEN response[1] ELSE NULL

\* { ...project, pipeline }
withPipeline(project, pipeline) == [id |-> project.id, pipeline |-> pipeline]

(***************************************************************************)
(* PipelinesComponent: one record per refresh cycle in flight.  The fields  *)
(* are the locals of the call; degraded (the projects whose pipeline       *)
(* request failed), writes (how often the cycle has set the snapshot),     *)
(* published (the size of the last snapshot it set), older (the cycles     *)
(* in flight that started before it) and overtaken (a cycle that started   *)
(* after it made its final publish when this one had its project list)     *)
(* record its history.                                                     *)
(***************************************************************************)
NoError == "null"
ProjectsError == "Failed to load projects. Please check your credentials."

IdleCycle ==
  [pc |-> "idle", isRefresh |-> FALSE, fetched |-> <<>>, pinnedAtFetch |-> <<>>,
   pinnedProjects |-> <<>>, otherProjects |-> <<>>, pinnedRequests |-> <<>>,
   pinnedWithPipelines |-> <<>>, batches |-> <<>>, batchRequests |-> <<>>,
   results |-> <<>>, completedBatches |-> 0, isInitialLoad |-> FALSE,
   degraded |-> {}, writes |-> 0, published |-> 0, older |-> {}, overtaken |-> FALSE]

InFlight(c) == cyc[c].pc \in {"getProjects", "pinned", "batches"}
FreeSlots == {c \in Slots : ~InFlight(c)}

\* projects.filter(p => pinnedIds.has(p.id)) and its complement
filterPinned(list) == SelectSeq(list, LAMBDA p : isPinned(p.id))
filterOthers(list) == SelectSeq(list, LAMBDA p : ~isPinned(p.id))

\* for (i = 0; i < projects.length; i += BATCH_SIZE) batches.push(projects.slice(i, i + BATCH_SIZE))
numBatches(list) == (Len(list) + BATCH_SIZE - 1) \div BATCH_SIZE
batchesOf(list) ==
  [k \in 1..numBatches(list) |->
     SubSeq(list, (k - 1) * BATCH_SIZE + 1,
            IF k * BATCH_SIZE < Len(list) THEN k * BATCH_SIZE ELSE Len(list))]

\* loadPipelinesForProjects: one pending request per project, joined by forkJoin
pendingRequests(list) == [i \in 1..Len(list) |-> PENDING]

\* a join that emits as soon as one request has settled
allSettled_any(requests) == \E i \in 1..Len(requests) : requests[i] # PENDING

allSettled(requests) == \A i \in 1..Len(requests) : requests[i] # PENDING
\* a join that drops the projects whose pipeline came back null
forkJoinResult_dropsNull(list, requests) ==
  SelectSeq([i \in 1..Len(list) |-> withPipeline(list[i], requests[i])],
            LAMBDA v : v.pipeline # NULL)

forkJoinResult(list, requests) ==
  [i \in 1..Len(list) |-> withPipeline(list[i], requests[i])]

\* requests of a cycle that have not settled
unsettled(rec) ==
  Cardinality({i \in 1..Len(rec.pinnedRequests) : rec.pinnedRequests[i] = PENDING})
    + Cardinality({<<k, i>> \in (1..Len(rec.batchRequests)) \X (1..BATCH_SIZE) :
                     i <= Len(rec.batchRequests[k]) /\ rec.batchRequests[k][i] = PENDING})

\* what a step of a cycle leaves in lastOp; rec is the cycle as the step found
\* or made it, publish says how the step wrote the snapshot
CycleOp(op, c, publish, rec, writes) ==
  [op |-> op, c |-> c, publish |-> publish, isRefresh |-> rec.isRefresh,
   isInitialLoad |-> rec.isInitialLoad, fetched |-> rec.fetched,
   pinnedAtFetch |-> rec.pinnedAtFetch, degraded |-> rec.degraded,
   pinnedWithPipelines |-> rec.pinnedWithPipelines, results |-> rec.results,
   batches |-> rec.batches, batchRequests |-> rec.batchRequests,
   writes |-> writes, unsettled |-> unsettled(rec)]

\* the other operations leave their name and argument
PlainOp(op, arg) == [op |-> op, c |-> arg, publish |-> "none"]

\* a cycle that has ended keeps nothing but how it ended
Ended(how) == [IdleCycle EXCEPT !.pc = how]

\* the cycles when cycle c ends, by its final publish or by its failure: a
\* final publish overtakes the older cycles that hold their project list and
\* are still waiting for pipelines
cycleEnds(c, how) ==
  [d \in Slots |->
     IF d = c THEN Ended(how)
     ELSE [cyc[d] EXCEPT !.older = @ \ {c},
                         !.overtaken = @ \/ (/\ how = "done"
                                              /\ d \in cyc[c].older
                                              /\ cyc[d].pc \in {"pinned", "batches"})]]

\* the callback handed to loadProjectsInBatches: the final publish of a cycle
\* (projects.set(combined), then the flags are cleared)
Callback(op, c, base, results) ==
  /\ projects' = base.pinnedWithPipelines \o results
  /\ loading' = FALSE
  /\ refreshing' = FALSE
  /\ loadingOthers' = FALSE
  /\ cyc' = cycleEnds(c, "done")
  /\ lastOp' = CycleOp(op, c, "final", [base EXCEPT !.results = results], base.writes + 1)

\* loadProjectsInBatches without the test of projects.length: with no project
\* there is no batch, and nothing calls the callback
loadProjectsInBatches_noEmptyCheck(op, c, base, others) ==
  /\ cyc' = [cyc EXCEPT ![c] =
               [base EXCEPT !.pc = "batches",
                            !.batches = batchesOf(others),
                            !.batchRequests = [k \in 1..numBatches(others) |->
                                                 pendingRequests(batchesOf(others)[k])],
                            !.results = <<>>,
                            !.completedBatches = 0,
                            !.isInitialLoad = (Len(projects) = 0)]]
  /\ loadingOthers' = TRUE
  /\ lastOp' = PlainOp(op, c)
  /\ UNCHANGED <<projects, loading, refreshing>>

\* loadProjectsInBatches(otherProjects, callback, pinnedWithPipelines)
loadProjectsInBatches(op, c, base, others) ==
  IF Len(others) = 0
    THEN Callback(op, c, base, <<>>)
    ELSE /\ cyc' = [cyc EXCEPT ![c] =
                      [base EXCEPT !.pc = "batches",
                                   !.batches = batchesOf(others),
                                   !.batchRequests = [k \in 1..numBatches(others) |->
                                                        pendingRequests(batchesOf(others)[k])],
                                   !.results = <<>>,
                                   !.completedBatches = 0,
                                   !.isInitialLoad = (Len(projects) = 0)]]
         /\ loadingOthers' = TRUE
         /\ lastOp' = PlainOp(op, c)
         /\ UNCHANGED <<projects, loading, refreshing>>

\* loadPipelinesOptimized up to the subscription on getProjects()
loadPipelinesOptimized(c) ==
  /\ error' = NoError
  /\ IF Len(projects) > 0
       THEN refreshing' = TRUE /\ UNCHANGED loading
       ELSE loading' = TRUE /\ UNCHANGED refreshing
  /\ cyc' = [cyc EXCEPT ![c] = [IdleCycle EXCEPT !.pc = "getProjects",
                                                !.isRefresh = (Len(projects) > 0),
                                                !.older = {d \in Slots : InFlight(d)}]]

\* the slot a new cycle takes (the lowest one that is not in flight)
NewSlot == CHOOSE c \in FreeSlots : \A d \in FreeSlots : c <= d

\* The route guard admits the component only with stored credentials, and
\* nothing in these specifications clears them: getHeaders does not throw.
ngOnInit ==
  /\ life = "constructed"
  /\ ~getHeadersThrows
  /\ FreeSlots # {}
  /\ loadPipelinesOptimized(NewSlot)
  /\ life' = "active"
  /\ timer' = "armed"
  /\ lastOp' = PlainOp("ngOnInit", NewSlot)
  /\ UNCHANGED <<projects, loadingPinned, loadingOthers, retryingPipelines, retries, server,
                 pinVars, authVars, importVars>>

\* interval(REFRESH_INTERVAL) fires: the subscription is all that ties the
\* interval to the component
timerTick ==
  /\ timer = "armed"
  /\ ~getHeadersThrows
  /\ FreeSlots # {}
  /\ loadPipelinesOptimized(NewSlot)
  /\ lastOp' = PlainOp("timerTick", NewSlot)
  /\ UNCHANGED <<projects, loadingPinned, loadingOthers, retryingPipelines, retries, server,
                 life, timer, pinVars, authVars, importVars>>

\* ngOnDestroy without the unsubscribe
ngOnDestroy_keepsTimer ==
  /\ life = "active"
  /\ life' = "destroyed"
  /\ lastOp' = PlainOp("ngOnDestroy", 0)
  /\ UNCHANGED <<projects, loading, refreshing, loadingPinned, loadingOthers, error,
                 retryingPipelines, timer, cyc, retries, server, pinVars, authVars,
                 importVars>>

ngOnDestroy ==
  /\ life = "active"
  /\ life' = "destroyed"
  /\ timer' = IF timer = "armed" THEN "unsubscribed" ELSE timer
  /\ lastOp' = PlainOp("ngOnDestroy", 0)
  /\ UNCHANGED <<projects, loading, refreshing, loadingPinned, loadingOthers, error,
                 retryingPipelines, cyc, retries, server, pinVars, authVars, importVars>>

\* getProjects() answers: the next handler of loadPipelinesOptimized
getProjectsNext(c, list) ==
  /\ cyc[c].pc = "getProjects"
  /\ list \in ProjectLists
  /\ LET pinned == filterPinned(list)
         others == filterOthers(list)
         base == [cyc[c] EXCEPT !.fetched = list, !.pinnedAtFetch = pinnedIds,
                                !.pinnedProjects = pinned, !.otherProjects = others]
     IN IF Len(pinned) > 0
          THEN /\ loadingPinned' = TRUE
               /\ cyc' = [cyc EXCEPT ![c] =
                            [base EXCEPT !.pc = "pinned",
                                         !.pinnedRequests = pendingRequests(pinned)]]
               /\ lastOp' = PlainOp("getProjectsNext", c)
               /\ UNCHANGED <<projects, loading, refreshing, loadingOthers>>
          ELSE /\ loadProjectsInBatches("getProjectsNext", c, base, others)
               /\ UNCHANGED loadingPinned
  /\ UNCHANGED <<error, retryingPipelines, life, timer, retries, server,
                 pinVars, authVars, importVars>>

\* an error handler that also clears the snapshot
getProjectsError_clearsSnapshot(c) ==
  /\ cyc[c].pc = "getProjects"
  /\ error' = ProjectsError
  /\ loading' = FALSE
  /\ refreshing' = FALSE
  /\ loadingPinned' = FALSE
  /\ loadingOthers' = FALSE
  /\ projects' = <<>>
  /\ cyc' = cycleEnds(c, "failed")
  /\ lastOp' = CycleOp("getProjectsError", c, "none", cyc[c], cyc[c].writes)
  /\ UNCHANGED <<retryingPipelines, life, timer, retries, server,
                 pinVars, authVars, importVars>>

\* getProjects() fails: the error handler of loadPipelinesOptimized
getProjectsError(c) ==
  /\ cyc[c].pc = "getProjects"
  /\ error' = ProjectsError
  /\ loading' = FALSE
  /\ refreshing' = FALSE
  /\ loadingPinned' = FALSE
  /\ loadingOthers' = FALSE
  /\ cyc' = cycleEnds(c, "failed")
  /\ lastOp' = CycleOp("getProjectsError", c, "none", cyc[c], cyc[c].writes)
  /\ UNCHANGED <<projects, retryingPipelines, life, timer, retries, server,
                 pinVars, authVars, importVars>>

\* one pipeline request of the pinned forkJoin settles; the last one makes
\* forkJoin emit, which runs the next handler of the pinned subscription
pinnedRequestSettles(c, i, response) ==
  /\ cyc[c].pc = "pinned"
  /\ i \in 1..Len(cyc[c].pinnedRequests)
  /\ cyc[c].pinnedRequests[i] = PENDING
  /\ response \in PipelineResponses(cyc[c].pinnedProjects[i].id)
  /\ LET requests == [cyc[c].pinnedRequests EXCEPT ![i] = getLatestPipeline(response)]
         degraded == IF response = HTTP_ERROR
                       THEN cyc[c].degraded \cup {cyc[c].pinnedProjects[i].id}
                       ELSE cyc[c].degraded
         settled == [cyc[c] EXCEPT !.pinnedRequests = requests, !.degraded = degraded]
         base == [settled EXCEPT !.pinnedWithPipelines =
                                    forkJoinResult(cyc[c].pinnedProjects, requests)]
     IN IF allSettled(requests)
          THEN /\ loadingPinned' = FALSE
               /\ loadProjectsInBatches("pinnedRequestSettles", c, base, cyc[c].otherProjects)
          ELSE /\ cyc' = [cyc EXCEPT ![c] = settled]
               /\ lastOp' = PlainOp("pinnedRequestSettles", c)
               /\ UNCHANGED <<projects, loading, refreshing, loadingPinned, loadingOthers>>
  /\ UNCHANGED <<error, retryingPipelines, life, timer, retries, server,
                 pinVars, authVars, importVars>>

\* results = batchResults: the batch replaces what the earlier batches brought
pushResults_replaces(results, batchResults) == batchResults

\* results.push(...batchResults)
pushResults(results, batchResults) == results \o batchResults

\* if (isInitialLoad && index === 0) ... else if (isInitialLoad) ...: a batch
\* that completes writes the snapshot only on initial load
updatesProgressively_always(rec) == TRUE

updatesProgressively(rec) == rec.isInitialLoad

\* one pipeline request of batch k settles; the last one of the batch makes its
\* forkJoin emit, which runs the next handler of that batch's subscription
batchRequestSettles(c, k, i, response) ==
  /\ cyc[c].pc = "batches"
  /\ k \in 1..Len(cyc[c].batches)
  /\ i \in 1..Len(cyc[c].batchRequests[k])
  /\ cyc[c].batchRequests[k][i] = PENDING
  /\ response \in PipelineResponses(cyc[c].batches[k][i].id)
  /\ LET requests == [cyc[c].batchRequests EXCEPT ![k][i] = getLatestPipeline(response)]
         degraded == IF response = HTTP_ERROR
                       THEN cyc[c].degraded \cup {cyc[c].batches[k][i].id}
                       ELSE cyc[c].degraded
         settled == [cyc[c] EXCEPT !.batchRequests = requests, !.degraded = degraded]
         results == pushResults(cyc[c].results,
                                forkJoinResult(cyc[c].batches[k], requests[k]))
         completedBatches == cyc[c].completedBatches + 1
         progress == IF updatesProgressively(cyc[c]) THEN 1 ELSE 0
         pushed == [settled EXCEPT !.results = results,
                                   !.completedBatches = completedBatches,
                                   !.writes = @ + progress,
                                   !.published =
                                      IF updatesProgressively(cyc[c])
                                        THEN Len(cyc[c].pinnedWithPipelines \o results)
                                        ELSE @]
     IN IF ~allSettled(requests[k])
          THEN /\ cyc' = [cyc EXCEPT ![c] = settled]
               /\ lastOp' = PlainOp("batchRequestSettles", c)
               /\ UNCHANGED <<projects, loading, refreshing, loadingOthers>>
          ELSE IF completedBatches = Len(cyc[c].batches)
            THEN Callback("batchRequestSettles", c, pushed, results)
            ELSE /\ cyc' = [cyc EXCEPT ![c] = pushed]
                 /\ projects' = IF updatesProgressively(cyc[c])
                                  THEN cyc[c].pinnedWithPipelines \o results
                                  ELSE projects
                 /\ lastOp' = IF updatesProgressively(cyc[c])
                                THEN CycleOp("batchRequestSettles", c, "progress", pushed,
                                             pushed.writes)
                                ELSE PlainOp("batchRequestSettles", c)
                 /\ UNCHANGED <<loading, refreshing, loadingOthers>>
  /\ UNCHANGED <<error, loadingPinned, retryingPipelines, life, timer, retries, server,
                 pinVars, authVars, importVars>>

\* togglePin(projectId) from a displayed project card
togglePin(projectId) ==
  /\ life = "active"
  /\ includes(IdsOf(projects), projectId)
  /\ PinService_togglePin(projectId)
  /\ lastOp' = PlainOp("togglePin", projectId)
  /\ UNCHANGED <<compVars, authVars, importVars>>

\* the displayed partitions (computed signals)
pinnedProjects == SelectSeq(projects, LAMBDA p : isPinned(p.id))
otherProjects == SelectSeq(projects, LAMBDA p : ~isPinned(p.id))

isRetrying(projectId) == projectId \in retryingPipelines

\* what retryPipeline leaves in lastOp: the view it was given
RetryOp(view, publish) ==
  [op |-> "retryPipeline", c |-> view.id, publish |-> publish, pipeline |-> view.pipeline]

\* retryPipeline without the test of project.pipeline
retryPipeline_noNullCheck(idx) ==
  /\ life = "active"
  /\ ~getHeadersThrows
  /\ idx \in 1..Len(projects)
  /\ Len(retries) < MaxRetries
  /\ retryingPipelines' = retryingPipelines \cup {projects[idx].id}
  /\ retries' = Append(retries, [projectId |-> projects[idx].id,
                                 pipelineId |-> projects[idx].pipeline])
  /\ lastOp' = RetryOp(projects[idx], "none")
  /\ UNCHANGED <<projects, loading, refreshing, loadingPinned, loadingOthers, error,
                 life, timer, cyc, server, pinVars, authVars, importVars>>

\* retryPipeline(project) on the displayed view at position idx
retryPipeline(idx) ==
  /\ life = "active"
  /\ ~getHeadersThrows
  /\ idx \in 1..Len(projects)
  /\ IF projects[idx].pipeline = NULL
       THEN /\ lastOp' = RetryOp(projects[idx], "noop")
            /\ UNCHANGED <<retryingPipelines, retries>>
       ELSE /\ Len(retries) < MaxRetries
            /\ retryingPipelines' = retryingPipelines \cup {projects[idx].id}
            /\ retries' = Append(retries, [projectId |-> projects[idx].id,
                                           pipelineId |-> projects[idx].pipeline])
            /\ lastOp' = RetryOp(projects[idx], "none")
  /\ UNCHANGED <<projects, loading, refreshing, loadingPinned, loadingOthers, error,
                 life, timer, cyc, server, pinVars, authVars, importVars>>

\* projects().map(p => p.id === projectId ? { ...p, pipeline: newPipeline } : p)
\* a patch that forgets to compare the project id
patchPipeline_everyEntry(list, projectId, newPipeline) ==
  [i \in 1..Len(list) |-> [list[i] EXCEPT !.pipeline = newPipeline]]

patchPipeline(list, projectId, newPipeline) ==
  [i \in 1..Len(list) |->
     IF list[i].id = projectId THEN [list[i] EXCEPT !.pipeline = newPipeline] ELSE list[i]]

\* POST .../retry answers with the retried pipeline: the next handler
retryNext(k, newPipeline) ==
  /\ k \in 1..Len(retries)
  /\ newPipeline \in Pipelines
  /\ server' = [server EXCEPT ![retries[k].projectId] = newPipeline]
  /\ projects' = patchPipeline(projects, retries[k].projectId, newPipeline)
  /\ retryingPipelines' = retryingPipelines \ {retries[k].projectId}
  /\ retries' = spliceRemove(retries, k - 1)
  /\ lastOp' = [op |-> "retryNext", c |-> retries[k].projectId, publish |-> "patch",
                pipeline |-> newPipeline]
  /\ UNCHANGED <<loading, refreshing, loadingPinned, loadingOthers, error, life, timer, cyc,
                 pinVars, authVars, importVars>>

\* an error handler that takes the project out of the view
retryError_removesProject(k) ==
  /\ k \in 1..Len(retries)
  /\ projects' = SelectSeq(projects, LAMBDA p : p.id # retries[k].projectId)
  /\ retryingPipelines' = retryingPipelines \ {retries[k].projectId}
  /\ retries' = spliceRemove(retries, k - 1)
  /\ lastOp' = [op |-> "retryError", c |-> retries[k].projectId, publish |-> "alert"]
  /\ UNCHANGED <<loading, refreshing, loadingPinned, loadingOthers, error, life,
                 timer, cyc, server, pinVars, authVars, importVars>>

\* POST .../retry fails: the error handler, which ends in alert(...)
retryError(k) ==
  /\ k \in 1..Len(retries)
  /\ retryingPipelines' = retryingPipelines \ {retries[k].projectId}
  /\ retries' = spliceRemove(retries, k - 1)
  /\ lastOp' = [op |-> "retryError", c |-> retries[k].projectId, publish |-> "alert"]
  /\ UNCHANGED <<projects, loading, refreshing, loadingPinned, loadingOthers, error, life,
                 timer, cyc, server, pinVars, authVars, importVars>>

(***************************************************************************)
(* canRetryPipeline(status).  A status is null, undefined or a string; a    *)
(* string is a sequence of characters, a character a letter and its case.  *)
(***************************************************************************)
Char(letter, upper) == [letter |-> letter, upper |-> upper]

\* the string that spells the letters of word in lower case
Lower(word) == [i \in 1..Len(word) |-> Char(word[i], FALSE)]

\* the statuses of a GitLabPipeline, and one the interface does not list
StatusWords ==
  {<<"s", "u", "c", "c", "e", "s", "s">>, <<"f", "a", "i", "l", "e", "d">>,
   <<"r", "u", "n", "n", "i", "n", "g">>, <<"p", "e", "n", "d", "i", "n", "g">>,
   <<"c", "a", "n", "c", "e", "l", "e", "d">>, <<"s", "k", "i", "p", "p", "e", "d">>,
   <<"m", "a", "n", "u", "a", "l">>}

\* a word in every mix of upper and lower case
CaseVariants(word) ==
  {[i \in 1..Len(word) |-> Char(word[i], u[i])] : u \in [1..Len(word) -> BOOLEAN]}

NullStatus == [kind |-> "null", chars |-> <<>>]
UndefinedStatus == [kind |-> "undefined", chars |-> <<>>]
StringStatus(chars) == [kind |-> "string", chars |-> chars]

\* string | null | undefined
Statuses ==
  {NullStatus, UndefinedStatus, StringStatus(<<>>)}
    \cup {StringStatus(chars) : chars \in UNION {CaseVariants(w) : w \in StatusWords}}

\* String.prototype.toLowerCase
toLowerCase(chars) == [i \in 1..Len(chars) |-> [chars[i] EXCEPT !.upper = FALSE]]

\* !status: null, undefined and the empty string
isFalsy(status) == status.kind # "string" \/ status.chars = <<>>

\* canRetryPipeline that leaves out 'skipped'
canRetryPipeline_withoutSkipped(status) ==
  IF isFalsy(status) THEN FALSE
  ELSE LET lowerStatus == toLowerCase(status.chars)
       IN \/ lowerStatus = Lower(<<"f", "a", "i", "l", "e", "d">>)
          \/ lowerStatus = Lower(<<"c", "a", "n", "c", "e", "l", "e", "d">>)

canRetryPipeline(status) ==
  IF isFalsy(status) THEN FALSE
  ELSE LET lowerStatus == toLowerCase(status.chars)
       IN \/ lowerStatus = Lower(<<"f", "a", "i", "l", "e", "d">>)
          \/ lowerStatus = Lower(<<"c", "a", "n", "c", "e", "l", "e", "d">>)
          \/ lowerStatus = Lower(<<"s", "k", "i", "p", "p", "e", "d">>)

\* the template asks whether the retry button is to be shown
canRetryPipelineCall(status) ==
  /\ lastOp' = [op |-> "canRetryPipeline", status |-> status,
                result |-> canRetryPipeline(status)]
  /\ UNCHANGED <<compVars, pinVars, authVars, importVars>>

(***************************************************************************)
(* Spec: the pipelines component.                                          *)
(***************************************************************************)
\* pin records the pin service can find in storage when it is constructed
StoredPins == {<<>>, << <<1, 2>> >>}

StoredCredentials == [username |-> "user", token |-> "glpat"]

ServerInit == [i \in Ids |-> IF i = MaxProjects THEN NULL ELSE 1]

ServicesInit ==
  /\ importData = BlankText
  /\ importError = ""
  /\ importSuccess = FALSE
  /\ importTimer = {}

ComponentInit ==
  /\ projects = <<>>
  /\ loading = TRUE
  /\ refreshing = FALSE
  /\ loadingPinned = FALSE
  /\ loadingOthers = FALSE
  /\ error = NoError
  /\ retryingPipelines = {}
  /\ life = "constructed"
  /\ timer = "none"
  /\ cyc = [c \in Slots |-> IdleCycle]
  /\ retries = <<>>
  /\ server = ServerInit

Init ==
  /\ ComponentInit
  /\ ServicesInit
  /\ pinStorage \in StoredPins
  /\ pinnedIds = loadPinnedIds(pinStorage)
  /\ credStorage = <<StoredCredentials>>
  /\ credentials = credStorage
  /\ lastOp = PlainOp("init", 0)

\* an answer to GET /projects/{id}/pipelines?per_page=1, or its failure
Responses == {HTTP_ERROR, <<>>} \cup {<<p>> : p \in Pipelines}

\* the steps of refresh cycle c: one of its network calls settles and its
\* handler runs
CycleStepOf(c) ==
  \/ \E list \in ProjectLists : getProjectsNext(c, list)
  \/ getProjectsError(c)
  \/ \E i \in 1..MaxProjects, r \in Responses : pinnedRequestSettles(c, i, r)
  \/ \E k \in 1..MaxProjects, i \in 1..BATCH_SIZE, r \in Responses :
       batchRequestSettles(c, k, i, r)

\* the steps of the refresh cycles in flight
CycleStep == \E c \in Slots : CycleStepOf(c)

Next ==
  \/ ngOnInit
  \/ timerTick
  \/ ngOnDestroy
  \/ CycleStep

Spec == Init /\ [][Next]_vars

(***************************************************************************)
(* SpecRetry: the component with the user retrying pipelines; the timer    *)
(* fires between cycles.                                                   *)
(***************************************************************************)
timerTickBetweenCycles ==
  /\ \A c \in Slots : ~InFlight(c)
  /\ timerTick

NextRetry ==
  \/ ngOnInit
  \/ timerTickBetweenCycles
  \/ ngOnDestroy
  \/ CycleStep
  \/ \E idx \in 1..MaxProjects : retryPipeline(idx)
  \/ \E k \in 1..MaxRetries, p \in Pipelines : retryNext(k, p)
  \/ \E k \in 1..MaxRetries : retryError(k)

SpecRetry == Init /\ [][NextRetry]_vars

(***************************************************************************)
(* SpecSequential: the component alone, each refresh cycle started after   *)
(* the one before it has ended.                                            *)
(***************************************************************************)
NextSequential ==
  \/ ngOnInit
  \/ timerTickBetweenCycles
  \/ ngOnDestroy
  \/ CycleStep

SpecSequential == Init /\ [][NextSequential]_vars

(***************************************************************************)
(* SpecSettles: SpecSequential where every network call that a refresh     *)
(* cycle has issued settles in the end and its handler runs (weak fairness *)
(* of the steps of each cycle; the event loop runs a handler once its call *)
(* has settled).  Nothing is assumed of the timer or of the user.          *)
(***************************************************************************)
SpecSettles == Init /\ [][NextSequential]_vars /\ \A c \in Slots : WF_vars(CycleStepOf(c))

(***************************************************************************)
(* SpecPins: the component with the user pinning and unpinning projects;   *)
(* the timer fires between cycles.                                         *)
(***************************************************************************)
NextPins ==
  \/ ngOnInit
  \/ timerTickBetweenCycles
  \/ ngOnDestroy
  \/ CycleStep
  \/ \E id \in Ids : togglePin(id)

SpecPins == Init /\ [][NextPins]_vars

(***************************************************************************)
(* SpecSettings: the export/import screen with the pin and auth services.  *)
(***************************************************************************)
SettingsInit ==
  /\ ComponentInit
  /\ ServicesInit
  /\ pinStorage \in {<<>>, << <<1, 2>> >>}
  /\ pinnedIds = loadPinnedIds(pinStorage)
  /\ credStorage \in {<<>>, <<StoredCredentials>>}
  /\ credentials = credStorage
  /\ lastOp = [op |-> "init"]

NextSettings ==
  \/ \E text \in ImportTexts : importUserData(text)
  \/ importSuccessTimeout
  \/ importNavigateTimeout
  \/ clearImport

SpecSettings == SettingsInit /\ [][NextSettings]_vars

(***************************************************************************)
(* SpecPinService: the pin service driven by pin toggles and drag-reorder. *)
(***************************************************************************)
PinServiceInit ==
  /\ ComponentInit
  /\ ServicesInit
  /\ pinStorage = <<>>
  /\ pinnedIds = loadPinnedIds(pinStorage)
  /\ credStorage = <<StoredCredentials>>
  /\ credentials = credStorage
  /\ lastOp = [op |-> "init"]

NextPinService ==
  \/ \E id \in 1..MaxPinned : pinServiceTogglePin(id)
  \/ \E from \in 0..(MaxPinned - 1), to \in 0..(MaxPinned - 1) : pinServiceReorderPinned(from, to)

SpecPinService == PinServiceInit /\ [][NextPinService]_vars

(***************************************************************************)
(* SpecPinnedOrder: the pin service driven by pin toggles, drag-reorder    *)
(* and imports of a pinnedRepos array.                                     *)
(***************************************************************************)
\* import documents with a version, no credentials and a pinnedRepos array
PinImportTexts ==
  {text \in ImportTexts :
     /\ text.kind = "json"
     /\ text.version = <<"1.0">>
     /\ text.credentials = <<>>
     /\ text.pinnedRepos.kind = "array"}

PinnedOrderInit ==
  /\ ComponentInit
  /\ ServicesInit
  /\ pinStorage \in StoredPins
  /\ pinnedIds = loadPinnedIds(pinStorage)
  /\ credStorage = <<StoredCredentials>>
  /\ credentials = credStorage
  /\ lastOp = [op |-> "init"]

NextPinnedOrder ==
  \/ \E text \in PinImportTexts : importUserData(text)
  \/ importSuccessTimeout
  \/ \E id \in 1..MaxPinned : pinServiceTogglePin(id)
  \/ \E from \in 0..(MaxPinned - 1), to \in 0..(MaxPinned - 1) : pinServiceReorderPinned(from, to)

SpecPinnedOrder == PinnedOrderInit /\ [][NextPinnedOrder]_vars

(***************************************************************************)
(* SpecStatus: canRetryPipeline asked about every status.                  *)
(***************************************************************************)
NextStatus == \E status \in Statuses : canRetryPipelineCall(status)

SpecStatus == PinServiceInit /\ [][NextStatus]_vars

(***************************************************************************)
(* Properties of the export/import screen and of the pin service.          *)
(***************************************************************************)
\* the import document breaks a validation rule: no version, credentials with
\* an empty field, or pinnedRepos that is not an array of numbers
DocumentViolates(text) ==
  /\ text.kind = "json"
  /\ \/ text.version \in {<<>>, <<"">>}
     \/ /\ text.credentials # <<>>
        /\ text.credentials[1].username = "" \/ text.credentials[1].token = ""
     \/ text.pinnedRepos.kind = "other"
     \/ /\ text.pinnedRepos.kind = "array"
        /\ \E i \in 1..Len(text.pinnedRepos.items) : text.pinnedRepos.items[i].t # "number"

\* C7: an import whose document violates a validation rule ends with an error
\* and leaves the stored credentials and the pinned order as they were.
C7_ImportAllOrNothing ==
  (lastOp.op = "importUserData" /\ DocumentViolates(lastOp.text))
    => /\ importError # ""
       /\ ~importSuccess
       /\ credentials = lastOp.credentialsBefore
       /\ pinnedIds = lastOp.pinnedBefore

\* the document has a version and a pinnedRepos array with an element that is
\* not a number
HasBadPinnedRepos(text) ==
  /\ text.kind = "json"
  /\ text.version # <<>>
  /\ text.pinnedRepos.kind = "array"
  /\ \E i \in 1..Len(text.pinnedRepos.items) : text.pinnedRepos.items[i].t # "number"

\* C17: importing a document with a version and a pinnedRepos array that holds
\* an element that is not a number ends in an import error and leaves the
\* pinned order, in memory and in storage, as it was.
C17_BadPinnedReposKeepsPins ==
  (lastOp.op = "importUserData" /\ HasBadPinnedRepos(lastOp.text))
    => /\ importError # ""
       /\ ~importSuccess
       /\ pinnedIds = lastOp.pinnedBefore
       /\ loadPinnedIds(pinStorage) = lastOp.pinnedBefore

\* {version: "1.0", pinnedRepos: [1, "2"]} has been imported over the pinned
\* order [1,2] and rejected for its pinned repos
C17_Witness ==
  /\ lastOp.op = "importUserData"
  /\ lastOp.text.version = <<"1.0">>
  /\ lastOp.text.credentials = <<>>
  /\ lastOp.text.pinnedRepos = [kind |-> "array", items |-> <<NumberItem(1), StringItem(2)>>]
  /\ lastOp.pinnedBefore = <<1, 2>>
  /\ pinnedIds = <<1, 2>>
  /\ importError = "Invalid pinned repos data: must be array of numbers"

\* C21: the pinned order never holds an id twice, whatever togglePin,
\* reorderPinned, the import's setPinnedOrder and the load from storage did,
\* and togglePin of a pinned id leaves the id not pinned.
C21_PinnedOrderUnique ==
  /\ IsUnique(pinnedIds)
  /\ (lastOp.op = "togglePin" /\ includes(lastOp.pinnedBefore, lastOp.id))
       => ~isPinned(lastOp.id)

\* the index at which reorderPinned(from, to) leaves the moved id
LandingIndex(from, to) == IF from < to THEN to - 1 ELSE to

\* C8 as stated: reorderPinned(from, to) leaves the moved id at index to and
\* keeps the order of the others; [A,B,C,D] becomes [C,A,B,D] by (2,0) and
\* [B,C,A,D] by (0,2).
C8_ReorderEndsAtTo ==
  lastOp.op = "reorderPinned"
    => /\ pinnedIds[lastOp.to + 1] = lastOp.pinnedBefore[lastOp.from + 1]
       /\ spliceRemove(pinnedIds, lastOp.to) = spliceRemove(lastOp.pinnedBefore, lastOp.from)
       /\ (lastOp.pinnedBefore = <<1, 2, 3, 4>> /\ lastOp.from = 2 /\ lastOp.to = 0)
            => pinnedIds = <<3, 1, 2, 4>>
       /\ (lastOp.pinnedBefore = <<1, 2, 3, 4>> /\ lastOp.from = 0 /\ lastOp.to = 2)
            => pinnedIds = <<2, 3, 1, 4>>

\* C8 amended: reorderPinned(from, to) leaves the moved id at index to when
\* from >= to and at index to - 1 when from < to, and keeps the order of the
\* others; [A,B,C,D] becomes [C,A,B,D] by (2,0) and [B,A,C,D] by (0,2).
C8_ReorderLanding ==
  lastOp.op = "reorderPinned"
    => /\ pinnedIds[LandingIndex(lastOp.from, lastOp.to) + 1]
            = lastOp.pinnedBefore[lastOp.from + 1]
       /\ spliceRemove(pinnedIds, LandingIndex(lastOp.from, lastOp.to))
            = spliceRemove(lastOp.pinnedBefore, lastOp.from)
       /\ pinStorage = <<pinnedIds>>
       /\ (lastOp.pinnedBefore = <<1, 2, 3, 4>> /\ lastOp.from = 2 /\ lastOp.to = 0)
            => pinnedIds = <<3, 1, 2, 4>>
       /\ (lastOp.pinnedBefore = <<1, 2, 3, 4>> /\ lastOp.from = 0 /\ lastOp.to = 2)
            => pinnedIds = <<2, 1, 3, 4>>

\* reorderPinned(0, 2) has run on [A,B,C,D]
C8_Witness ==
  /\ lastOp.op = "reorderPinned"
  /\ lastOp.pinnedBefore = <<1, 2, 3, 4>>
  /\ lastOp.from = 0
  /\ lastOp.to = 2
  /\ pinnedIds = <<2, 1, 3, 4>>

(***************************************************************************)
(* Properties of the refresh cycle.  A step of a cycle that writes the     *)
(* snapshot leaves lastOp.publish = "progress" or "final" together with    *)
(* what the cycle fetched.                                                 *)
(***************************************************************************)
Publishes == lastOp.publish \in {"progress", "final"}

\* the ids of s that are in the set S, in the order of s
Restrict(s, S) == SelectSeq(s, LAMBDA x : x \in S)

\* the entries of the snapshot the publishing cycle took as pinned / as other
PublishedPinned == SelectSeq(projects, LAMBDA p : includes(lastOp.pinnedAtFetch, p.id))
PublishedOthers == SelectSeq(projects, LAMBDA p : ~includes(lastOp.pinnedAtFetch, p.id))

\* C1: in every snapshot a cycle publishes, the non-pinned entries are in the
\* relative order of the fetched project list, whatever the completion order.
C1_OthersInFetchOrder ==
  Publishes => IdsOf(PublishedOthers)
                 = Restrict(IdsOf(lastOp.fetched), Range(IdsOf(PublishedOthers)))

\* C2: a cycle that started with a non-empty snapshot writes the
\* snapshot once, and only when all its requests have settled.
C2_BackgroundPublishesOnce ==
  (Publishes /\ lastOp.isRefresh)
    => /\ lastOp.publish = "final"
       /\ lastOp.unsettled = 0
       /\ lastOp.writes = 1

\* C3: the pinned partition of the final snapshot lists the pinned projects in
\* the order of PinnedOrder restricted to the fetched ids.
C3_PinnedInPinnedOrder ==
  lastOp.publish = "final"
    => IdsOf(PublishedPinned) = Restrict(lastOp.pinnedAtFetch, Range(IdsOf(lastOp.fetched)))

\* C4: when the project-list fetch fails the cycle sets the error, clears the
\* loading and refreshing flags and, like the start of the cycle, writes
\* neither the snapshot nor the pin order.
C4_ProjectsErrorKeepsSnapshot ==
  [][\A c \in Slots :
       /\ (cyc[c].pc = "getProjects" /\ cyc'[c].pc = "failed")
            => /\ error' = ProjectsError
               /\ ~loading' /\ ~refreshing'
               /\ projects' = projects
               /\ pinnedIds' = pinnedIds /\ pinStorage' = pinStorage
               /\ cyc[c].writes = 0
       /\ (cyc[c].pc # "getProjects" /\ cyc'[c].pc = "getProjects")
            => /\ projects' = projects
               /\ pinnedIds' = pinnedIds /\ pinStorage' = pinStorage]_vars

\* the project-list fetch of a background refresh has failed
C4_Witness ==
  /\ lastOp.op = "getProjectsError"
  /\ lastOp.isRefresh
  /\ error = ProjectsError
  /\ Len(projects) > 0

\* C5: the final snapshot of a cycle holds every fetched project once, the
\* pinned ones first, and a project whose pipeline fetch failed has pipeline
\* null; a cycle whose requests have all settled has published.
C5_FinalSnapshotComplete ==
  /\ lastOp.publish = "final"
       => /\ Len(projects) = Len(lastOp.fetched)
          /\ \A i \in 1..Len(lastOp.fetched) :
               Cardinality({j \in 1..Len(projects) : projects[j].id = lastOp.fetched[i].id}) = 1
          /\ IdsOf(projects) = IdsOf(PublishedPinned) \o IdsOf(PublishedOthers)
          /\ \A j \in 1..Len(projects) :
               projects[j].id \in lastOp.degraded => projects[j].pipeline = NULL
  /\ \A c \in Slots : cyc[c].pc \in {"pinned", "batches"} => unsettled(cyc[c]) > 0

\* a cycle over the whole project list has published with a failed pipeline
\* fetch next to a successful one
C5_Witness ==
  /\ lastOp.publish = "final"
  /\ Len(lastOp.fetched) = MaxProjects
  /\ lastOp.degraded # {}
  /\ \E j \in 1..Len(projects) : projects[j].id \in lastOp.degraded /\ projects[j].pipeline = NULL
  /\ \E j \in 1..Len(projects) : projects[j].pipeline # NULL

\* C6: after ngOnDestroy no completion changes the snapshot, the flags or the
\* retrying set.
C6_NoWriteAfterStop ==
  [][life = "destroyed"
       => /\ projects' = projects
          /\ loading' = loading /\ refreshing' = refreshing /\ error' = error
          /\ retryingPipelines' = retryingPipelines]_vars

(***************************************************************************)
(* Properties of retry.                                                    *)
(***************************************************************************)
\* C9: a retry that succeeds changes the snapshot only in the pipeline of the
\* entry with that project id, which becomes the pipeline the server returned.
C9_RetrySuccessPatchesOne ==
  [][lastOp'.op = "retryNext"
       => /\ Len(projects') = Len(projects)
          /\ \A i \in 1..Len(projects) :
               /\ projects'[i].id = projects[i].id
               /\ projects[i].id = lastOp'.c => projects'[i].pipeline = lastOp'.pipeline
               /\ projects[i].id # lastOp'.c => projects'[i] = projects[i]]_vars

\* a retry has put a new pipeline on one entry of a snapshot with another
\* entry that has a different pipeline
C9_Witness ==
  /\ lastOp.op = "retryNext"
  /\ \E i, j \in 1..Len(projects) :
       /\ projects[i].id = lastOp.c
       /\ projects[i].pipeline = lastOp.pipeline
       /\ projects[j].id # lastOp.c
       /\ projects[j].pipeline \notin {NULL, lastOp.pipeline}

\* C10: a retry that fails leaves the snapshot as it was and raises a notice.
C10_RetryFailureKeepsSnapshot ==
  [][lastOp'.op = "retryError" => (projects' = projects /\ lastOp'.publish = "alert")]_vars

\* a retry has failed for a project that is in the view with its pipeline
C10_Witness ==
  /\ lastOp.op = "retryError"
  /\ \E i \in 1..Len(projects) : projects[i].id = lastOp.c /\ projects[i].pipeline # NULL

\* C11: while a retry call for a project is in flight the project id is in the
\* retrying set, and when a retry call settles, by success or by failure, the
\* id is no longer in the set.
C11_RetryingUntilSettled ==
  [][/\ \A k \in 1..Len(retries') : retries'[k].projectId \in retryingPipelines'
     /\ lastOp'.op \in {"retryNext", "retryError"} => lastOp'.c \notin retryingPipelines']_vars

\* C16: retryPipeline on a view whose pipeline is null issues no retry call
\* and changes neither the snapshot nor the retrying set.
C16_RetryWithoutPipelineIsNoOp ==
  [][(lastOp'.op = "retryPipeline" /\ lastOp'.pipeline = NULL)
       => /\ retries' = retries
          /\ projects' = projects
          /\ retryingPipelines' = retryingPipelines
          /\ server' = server]_vars

\* retryPipeline has been called on a view without a pipeline, next to a view
\* with one, and nothing is in flight
C16_Witness ==
  /\ lastOp.op = "retryPipeline"
  /\ lastOp.pipeline = NULL
  /\ \E i \in 1..Len(projects) : projects[i].id = lastOp.c /\ projects[i].pipeline = NULL
  /\ \E i \in 1..Len(projects) : projects[i].pipeline # NULL
  /\ retries = <<>>
  /\ retryingPipelines = {}

(***************************************************************************)
(* Properties of progressive publishing.                                   *)
(***************************************************************************)
\* the batches of a cycle whose requests have all settled
CompletedBatches(op) ==
  {k \in 1..Len(op.batches) :
     \A i \in 1..Len(op.batchRequests[k]) : op.batchRequests[k][i] # PENDING}

\* results holds the projects of the completed batches, each once, each with
\* the pipeline its request brought, and nothing else
HoldsCompletedBatches(op) ==
  /\ IsUnique(IdsOf(op.results))
  /\ Range(IdsOf(op.results))
       = UNION {Range(IdsOf(op.batches[k])) : k \in CompletedBatches(op)}
  /\ \A j \in 1..Len(op.results) :
       \E k \in CompletedBatches(op) : \E i \in 1..Len(op.batches[k]) :
         /\ op.batches[k][i].id = op.results[j].id
         /\ op.results[j].pipeline = op.batchRequests[k][i]

\* C12: in a cycle that started with an empty snapshot every publish is the
\* pinned result followed by the results of the batches completed so far, and
\* is at least as long as the cycle's previous publish.
C12_InitialLoadPublishesGrow ==
  [][(lastOp'.publish \in {"progress", "final"} /\ ~lastOp'.isRefresh)
       => /\ projects' = lastOp'.pinnedWithPipelines \o lastOp'.results
          /\ IdsOf(lastOp'.pinnedWithPipelines)
               = Restrict(IdsOf(lastOp'.fetched), Range(lastOp'.pinnedAtFetch))
          /\ HoldsCompletedBatches(lastOp')
          /\ Len(projects') >= cyc[lastOp'.c].published]_vars

\* an initial load over two batches has published after each batch and at the
\* end, the whole project list in the last publish
C12_Witness ==
  /\ lastOp.publish = "final"
  /\ ~lastOp.isRefresh
  /\ lastOp.isInitialLoad
  /\ lastOp.writes >= 3
  /\ Len(lastOp.batches) >= 2
  /\ Len(projects) = MaxProjects

(***************************************************************************)
(* Properties of the displayed partitions.                                 *)
(***************************************************************************)
\* C13, at the states the claim singles out (after a togglePin made between
\* refresh cycles): the pinned partition holds exactly the pinned ids of the
\* snapshot, and the other partition lists the remaining projects in the
\* server's fetch order, a project that was just unpinned included.
C13_PartitionsAfterToggle ==
  (lastOp.op = "togglePin" /\ \A c \in Slots : ~InFlight(c))
    => /\ Range(IdsOf(pinnedProjects)) = Range(pinnedIds) \cap Range(IdsOf(projects))
       /\ Range(IdsOf(otherProjects)) = Range(IdsOf(projects)) \ Range(pinnedIds)
       /\ IdsOf(otherProjects)
            = Restrict(IdsOf(ServerOrder), Range(IdsOf(otherProjects)))

(***************************************************************************)
(* Properties of consecutive cycles.                                       *)
(***************************************************************************)
\* C14: a complete refresh cycle that fetched the project list and the
\* pipelines the snapshot of the cycle before it shows (same server data, no
\* failed request in either, same pinned order) ends with that same snapshot:
\* same ids, same order, same pipelines.
C14_RefreshIsIdempotent ==
  [][(/\ lastOp'.publish = "final"
      /\ lastOp'.isRefresh
      /\ lastOp'.degraded = {}
      /\ Range(IdsOf(lastOp'.fetched)) = Range(IdsOf(projects))
      /\ \A i \in 1..Len(projects) : projects[i].pipeline = server[projects[i].id]
      /\ pinnedIds' = pinnedIds)
       => projects' = projects]_vars

(***************************************************************************)
(* Properties of the timer.                                                *)
(***************************************************************************)
\* the step starts a refresh cycle in slot c
StartsCycle(c) == cyc[c].pc # "getProjects" /\ cyc'[c].pc = "getProjects"

\* C15: ngOnInit starts one refresh cycle and arms the timer, each tick of
\* the timer starts one cycle, nothing else starts a cycle, and after
\* ngOnDestroy no cycle is started.
C15_TimerStartsCycles ==
  [][/\ lastOp'.op = "ngOnInit"
          => /\ Cardinality({c \in Slots : StartsCycle(c)}) = 1
             /\ timer' = "armed"
     /\ lastOp'.op = "timerTick"
          => /\ Cardinality({c \in Slots : StartsCycle(c)}) = 1
             /\ life = "active"
     /\ (\E c \in Slots : StartsCycle(c)) => lastOp'.op \in {"ngOnInit", "timerTick"}
     /\ life = "destroyed" => (timer' # "armed" /\ \A c \in Slots : ~StartsCycle(c))]_vars

\* a cycle the timer started has made its final publish after ngOnDestroy,
\* with the timer unsubscribed
C15_Witness ==
  /\ life = "destroyed"
  /\ timer = "unsubscribed"
  /\ lastOp.publish = "final"
  /\ lastOp.isRefresh

(***************************************************************************)
(* Properties of canRetryPipeline.                                         *)
(***************************************************************************)
\* the string spells the word, in whatever case its letters are written
Spells(chars, word) ==
  /\ Len(chars) = Len(word)
  /\ \A i \in 1..Len(word) : chars[i].letter = word[i]

\* C18: canRetryPipeline(status) is true exactly when the status is failed,
\* canceled or skipped (in whatever letter case), and false for success,
\* running, pending, any other status, the empty string, null and undefined.
C18_CanRetryExactly ==
  lastOp.op = "canRetryPipeline"
    => /\ lastOp.result
            = (/\ lastOp.status.kind = "string"
               /\ \/ Spells(lastOp.status.chars, <<"f", "a", "i", "l", "e", "d">>)
                  \/ Spells(lastOp.status.chars, <<"c", "a", "n", "c", "e", "l", "e", "d">>)
                  \/ Spells(lastOp.status.chars, <<"s", "k", "i", "p", "p", "e", "d">>))
       /\ lastOp.status \in {NullStatus, UndefinedStatus} => ~lastOp.result

\* canRetryPipeline('skipped') has answered true
C18_Witness ==
  /\ lastOp.op = "canRetryPipeline"
  /\ lastOp.status = StringStatus(Lower(<<"s", "k", "i", "p", "p", "e", "d">>))
  /\ lastOp.result

(***************************************************************************)
(* Properties of the order in which a cycle issues its requests.  A        *)
(* request has been issued when the cycle holds it, pending or settled.    *)
(***************************************************************************)
\* no request of the list is pending
NonePending(requests) == \A i \in 1..Len(requests) : requests[i] # PENDING

\* C19: a cycle has issued the requests of batch k+1 only when every request
\* of batch k has settled, and its results hold the batches in index order.
C19_BatchesInIndexOrder ==
  \A c \in Slots :
    cyc[c].pc = "batches"
      => /\ \A k \in 1..(Len(cyc[c].batchRequests) - 1) :
              Len(cyc[c].batchRequests[k + 1]) > 0 => NonePending(cyc[c].batchRequests[k])
         /\ IdsOf(cyc[c].results)
              = Restrict(IdsOf(cyc[c].otherProjects), Range(IdsOf(cyc[c].results)))

\* C20: a cycle with pinned projects has issued requests for other projects
\* only when every request for a pinned project has settled.
C20_PinnedSettleBeforeOthers ==
  \A c \in Slots :
    (Len(cyc[c].pinnedProjects) > 0 /\ Len(cyc[c].batchRequests) > 0)
      => NonePending(cyc[c].pinnedRequests)

\* a cycle with two pinned projects, one of them degraded to null, is waiting
\* for the requests of its other projects
C20_Witness ==
  \E c \in Slots :
    /\ cyc[c].pc = "batches"
    /\ Len(cyc[c].pinnedProjects) = 2
    /\ cyc[c].degraded # {}
    /\ \E k \in 1..Len(cyc[c].batchRequests) : ~NonePending(cyc[c].batchRequests[k])

(***************************************************************************)
(* Properties of overlapping cycles.                                       *)
(***************************************************************************)
\* C22: once a cycle that started after it has made its final publish, a
\* cycle does not replace the snapshot by what it had fetched before.
C22_NoStaleOverwrite ==
  [][(lastOp'.publish \in {"progress", "final"} /\ cyc[lastOp'.c].overtaken)
       => projects' = projects]_vars


\* C23: a final publish does not put back the pipeline a project had before a
\* retry.  The server's latest pipeline of a project changes by a retry
\* only, so a project of the live snapshot that shows the server's latest
\* pipeline, and whose request did not fail in this cycle, keeps it.
C23_RetryPatchSurvivesRefresh ==
  [][lastOp'.publish = "final" =>
       \A i \in 1..Len(projects), j \in 1..Len(projects') :
         (/\ projects[i].id = projects'[j].id
          /\ projects[i].pipeline = server[projects[i].id]
          /\ projects[i].id \notin lastOp'.degraded)
           => projects'[j].pipeline = projects[i].pipeline]_vars


\* C24: while a refresh cycle is in flight, the loading flag or the
\* refreshing flag is set.
C24_FlagsWhileInFlight ==
  (\E c \in Slots : InFlight(c)) => (loading \/ refreshing)

\* C25: a project with a retry call in flight is marked as retrying.
C25_RetryingWhileInFlight ==
  \A r \in Range(retries) : isRetrying(r.projectId)


\* C26: when every network call that a refresh cycle issues settles, the
\* cycle ends, by its final publish or by the failure of its project list,
\* and the loading and refreshing flags are then cleared.
C26_CycleTerminates ==
  \A c \in Slots :
    InFlight(c) ~> (cyc[c].pc \in {"done", "failed"} /\ ~loading /\ ~refreshing)

\* a cycle with pinned and other projects, some of whose pipeline requests
\* failed, has made its final publish and the flags are cleared
C26_Witness ==
  /\ lastOp.publish = "final"
  /\ cyc[lastOp.c].pc = "done"
  /\ lastOp.degraded # {}
  /\ lastOp.pinnedWithPipelines # <<>>
  /\ lastOp.results # <<>>
  /\ ~loading
  /\ ~refreshing

====
